---------------------------- MODULE Spec2Model ----------------------------
(***************************************************************************)
(* Credential lifecycle of teams-mcp: the GraphService provider            *)
(* (src/services/graph.ts) serving concurrent tool calls in one Node.js     *)
(* process, and the device-code flow of the CLI (src/index.ts).             *)
(*                                                                         *)
(* Granularity.  JavaScript runs one continuation at a time; control can   *)
(* change hands only at an await that waits for I/O (fs.readFile, fetch,   *)
(* the response body, fs.writeFile, the Graph HTTP request, setTimeout).   *)
(* Every action below is one such continuation: it starts where an I/O     *)
(* completes and runs, through every synchronous call and return, to the   *)
(* next I/O wait or to the end of the operation.  The synchronous code is  *)
(* written as operators from a state record to a state record so that      *)
(* the code's call structure is kept.                                      *)
(*                                                                         *)
(* Time is in milliseconds (Date.now()).  Tokens are numbered by the       *)
(* generation in which the authorization server issued them.               *)
(*                                                                         *)
(* Specifications.  Spec: the server process with two concurrent tool      *)
(* calls.  PollSpec, FairPollSpec: one run of `authenticate`.  LifeSpec:   *)
(* the server process serving one call at a time while the CLI runs        *)
(* `authenticate` and `logout` on the same file; there the store may start *)
(* with any kind of record, and fs.writeFile is followed part by part.     *)
(***************************************************************************)
EXTENDS Integers, Sequences, FiniteSets, TLC

\* ------------------------------------------------------------------ bounds
MaxTicks == 1
MaxIssued == 3

\* --------------------------------------------------------------- constants
RefreshMarginMs == 5 * 60 * 1000
TickMs == 2 * RefreshMarginMs
ExpiresInChoices == {300, 600}
Callers == {"c1", "c2"}
NoToken == 0
CLIENT_ID == "14d82eec"

VARIABLES
    store,          \* the file ~/.msgraph-mcp-auth.json
    authInfo,       \* GraphService.authInfo
    client,         \* GraphService.client is defined
    isInitialized,  \* GraphService.isInitialized
    now,            \* Date.now()
    issued,         \* authorization server: generation of the latest token pair
    rejected,       \* a refresh response with a non-success status has been handled
    cs,             \* the tool calls in progress, one record per caller
    unauthAt,       \* flow.writes when initializeClient last returned without a
                    \* client; -1 before that and while the client exists
    authPc,         \* where the CLI's authenticate() stands
    interval,       \* pollForToken: interval (seconds)
    attempts,       \* pollForToken: attempts
    tokenResponse,  \* authenticate: the token response pollForToken returned
    flow            \* what the device-code flow has done so far

provider == <<authInfo, client, isInitialized, now, rejected, cs, unauthAt>>
device == <<authPc, interval, attempts, tokenResponse, flow>>
vars == <<store, authInfo, client, isInitialized, now, issued, rejected, cs,
          unauthAt, authPc, interval, attempts, tokenResponse, flow>>

\* ------------------------------------------------------ dates and the file
\* Date.prototype.toISOString: seconds and a three-digit millisecond part.
ToISOString(ms) == <<ms \div 1000, ms % 1000>>

\* new Date(isoString).getTime()
DateParse(iso) == iso[1] * 1000 + iso[2]

FieldOrder == <<"clientId", "authenticated", "timestamp", "expiresAt", "accessToken", "refreshToken">>
FieldNames == {FieldOrder[i] : i \in 1..Len(FieldOrder)}

\* A member the six fields do not know, written after them.
MemberOrder == FieldOrder \o <<"extra">>

\* What reading a property gives when the object has no such member, as far as
\* the code looks at it: undefined is falsy, new Date(undefined) is invalid.
Absent(k) ==
    CASE k = "clientId" -> ""
      [] k = "authenticated" -> FALSE
      [] k \in {"timestamp", "expiresAt"} -> <<>>
      [] OTHER -> NoToken

\* JSON.stringify without the timestamp member.
JSONStringifyNoTimestamp(r) ==
    LET Kept(k) == k \in r.has /\ k # "timestamp"
        keys == SelectSeq(MemberOrder, Kept)
    IN  [i \in 1..Len(keys) |-> <<keys[i], r[keys[i]]>>]

\* JSON.stringify(record, null, 2): the members the object has, in order.
JSONStringify(r) ==
    LET Kept(k) == k \in r.has
        keys == SelectSeq(MemberOrder, Kept)
    IN  [i \in 1..Len(keys) |-> <<keys[i], r[keys[i]]>>]

Member(doc, k) == (CHOOSE i \in 1..Len(doc) : doc[i][1] = k)

\* JSON.parse of a document: an object with the members the document has.
JSONParse(doc) ==
    LET Has == {doc[i][1] : i \in 1..Len(doc)}
        Get(k) == IF k \in Has THEN doc[Member(doc, k)][2] ELSE Absent(k)
    IN  [defined |-> TRUE,
         has |-> Has,
         clientId |-> Get("clientId"),
         authenticated |-> Get("authenticated"),
         timestamp |-> Get("timestamp"),
         expiresAt |-> Get("expiresAt"),
         accessToken |-> Get("accessToken"),
         refreshToken |-> Get("refreshToken"),
         extra |-> Get("extra")]

NoFile == [kind |-> "none", doc |-> <<>>]
Corrupt == [kind |-> "corrupt", doc |-> <<>>]
FileOf(r) == [kind |-> "json", doc |-> JSONStringify(r)]

\* fs.writeFile opens the file with truncation and writes the text from offset
\* 0; it is not atomic, and the text may reach the file in more than one write.
\* The text is taken in two parts: the members of fixed length first, then the
\* tokens and the closing brace.
HeadKeys == {"clientId", "authenticated", "timestamp", "expiresAt"}
IsHeadMember(m) == m[1] \in HeadKeys
IsTailMember(m) == m[1] \notin HeadKeys
FirstPart(doc) == SelectSeq(doc, IsHeadMember)
SecondPart(doc) == SelectSeq(doc, IsTailMember)

\* The file after open-with-truncation and the write of the first part.
FirstPartOf(content) == [kind |-> "corrupt", doc |-> FirstPart(content.doc)]

\* The file after the second part is written at its offset: the text parses
\* if a first part is there.
SecondPartOver(file, content) ==
    [kind |-> IF FirstPart(file.doc) # <<>> THEN "json" ELSE "corrupt",
     doc |-> FirstPart(file.doc) \o SecondPart(content.doc)]

Undefined ==
    [defined |-> FALSE, has |-> {}, clientId |-> "", authenticated |-> FALSE,
     timestamp |-> <<>>, expiresAt |-> <<>>,
     accessToken |-> NoToken, refreshToken |-> NoToken, extra |-> NoToken]

NoResponse == [ok |-> FALSE, access_token |-> NoToken, refresh_token |-> NoToken, expires_in |-> 0]

\* flow.initial    the interval the device-code response gave
\* flow.nSlow      slow_down responses received
\* flow.nWaits     waits started;  flow.lastWait  seconds of the latest one
\* flow.nPolls     token requests sent
\* flow.lastError  error code of the latest token response, "none" without one
\* flow.error      why authenticate failed
\* flow.writes     completed writes of the record
\* flow.grantedAt  Date.now() when pollForToken returned the token response
NoFlow ==
    [initial |-> 0, nSlow |-> 0, nWaits |-> 0, nPolls |-> 0, lastWait |-> 0,
     lastError |-> "none", error |-> "none", writes |-> 0, grantedAt |-> 0]

\* The two credentials of a record (of none).
Credentials(rec) ==
    [accessToken |-> rec.accessToken, refreshToken |-> rec.refreshToken]

IdleCaller ==
    [op |-> "none", pc |-> "idle", ctx |-> "none", probe |-> 0,
     req |-> NoToken, held |-> Credentials(Undefined),
     resp |-> NoResponse, respAt |-> 0, content |-> NoFile,
     wpos |-> 0, result |-> "none", nreq |-> 0, nwrite |-> 0,
     tok |-> NoToken, cbStale |-> FALSE, cbAt0 |-> NoToken, cbReqs |-> 0, cbWrites |-> 0]


\* The provider's state as one value, for the synchronous code below.
State ==
    [store |-> store, authInfo |-> authInfo, client |-> client,
     isInitialized |-> isInitialized, now |-> now, issued |-> issued,
     rejected |-> rejected, cs |-> cs, unauthAt |-> unauthAt]

Becomes(s) ==
    /\ store' = s.store
    /\ authInfo' = s.authInfo
    /\ client' = s.client
    /\ isInitialized' = s.isInitialized
    /\ now' = s.now
    /\ issued' = s.issued
    /\ rejected' = s.rejected
    /\ cs' = s.cs
    /\ unauthAt' = s.unauthAt
    /\ UNCHANGED device

Returned(out, s) == [out |-> out, s |-> s]

\* ------------------------------------------------- GraphService, synchronous
\* The record's expiresAt is at or before t + 5 minutes (recorded per
\* getAccessToken call, independently of the code's own test).
PastMargin(rec, t) == rec.expiresAt # <<>> /\ DateParse(rec.expiresAt) <= t + 300000

\* The test with < for <=.
IsExpiringStrict(rec, t) ==
    rec.expiresAt # <<>> /\ DateParse(rec.expiresAt) < t + RefreshMarginMs

\* The test with the margin taken a thousand times too long.
IsExpiringWideMargin(rec, t) ==
    rec.expiresAt # <<>> /\ DateParse(rec.expiresAt) <= t + RefreshMarginMs * 1000

\* The test with a margin of ten minutes.
IsExpiringTenMinutes(rec, t) ==
    rec.expiresAt # <<>> /\ DateParse(rec.expiresAt) <= t + 2 * RefreshMarginMs

\* ensureValidToken's test: expiresAt <= now + 5 minutes.  A record without
\* expiresAt gives an invalid Date, and every comparison with it is false.
IsExpiring(rec, t) ==
    rec.expiresAt # <<>> /\ DateParse(rec.expiresAt) <= t + RefreshMarginMs

\* refreshAccessToken sending its request whatever the held record has.
RefreshAccessTokenUnchecked(s, c, ctx) ==
    Returned("sent",
        [s EXCEPT !.cs[c].pc = "refresh_fetch",
                  !.cs[c].ctx = ctx,
                  !.cs[c].req = s.authInfo.refreshToken,
                  !.cs[c].held = Credentials(s.authInfo),
                  !.cs[c].nreq = @ + 1,
                  !.cs[c].cbReqs = IF ctx = "token" THEN @ + 1 ELSE @])

\* refreshAccessToken up to its fetch: "false" without a refresh token, else
\* the request leaves with the refresh token held at this moment.
RefreshAccessToken(s, c, ctx) ==
    IF ~s.authInfo.defined \/ s.authInfo.refreshToken = NoToken
    THEN Returned("false", s)
    ELSE Returned("sent",
            [s EXCEPT !.cs[c].pc = "refresh_fetch",
                      !.cs[c].ctx = ctx,
                      !.cs[c].req = s.authInfo.refreshToken,
                      !.cs[c].held = Credentials(s.authInfo),
                      !.cs[c].nreq = @ + 1,
                      !.cs[c].cbReqs = IF ctx = "token" THEN @ + 1 ELSE @])

\* ensureValidToken up to the fetch of the refresh it may start.
EnsureValidToken(s, c, ctx) ==
    IF ~s.authInfo.defined
    THEN Returned("false", s)
    ELSE IF IsExpiring(s.authInfo, s.now)
         THEN RefreshAccessToken(s, c, ctx)
         ELSE Returned("true", s)

\* What is recorded about the latest getAccessToken call is dropped.
Forgotten(s, c) ==
    [s EXCEPT !.cs[c].tok = NoToken, !.cs[c].cbStale = FALSE,
              !.cs[c].cbAt0 = NoToken, !.cs[c].cbReqs = 0, !.cs[c].cbWrites = 0]

\* The tool call of caller c ends with result res.
Done(s, c, res) ==
    [s EXCEPT !.cs[c] = [IdleCaller EXCEPT !.op = s.cs[c].op, !.pc = "done",
                                           !.result = res]]

RECURSIVE GetAccessToken(_, _)

\* getAuthStatus, after refreshAccessToken returned in the catch block.
CatchReturn(s, c, refreshed) ==
    IF refreshed
    THEN GetAccessToken([s EXCEPT !.cs[c].probe = 2], c)
    ELSE Done(s, c, "unauthenticated")

\* getAuthStatus's catch block: one refresh, and the retry if it succeeds.
Catch(s, c) ==
    IF s.authInfo.defined
    THEN LET r == RefreshAccessToken(s, c, "catch")
         IN  IF r.out = "sent" THEN r.s ELSE CatchReturn(r.s, c, r.out = "true")
    ELSE Done(s, c, "unauthenticated")

\* client.api(...).get() throws: the token callback threw or the request failed.
RequestThrows(s, c) ==
    IF s.cs[c].op = "status"
    THEN IF s.cs[c].probe = 1 THEN Catch(s, c) ELSE Done(s, c, "unauthenticated")
    ELSE Done(s, c, "apiError")

\* getAccessToken dropping the client when no valid token can be had.
TokenReturnResets(s, c, isValid) ==
    IF ~isValid \/ s.authInfo.accessToken = NoToken
    THEN RequestThrows([s EXCEPT !.client = FALSE, !.isInitialized = FALSE], c)
    ELSE [s EXCEPT !.cs[c].pc = "http", !.cs[c].ctx = "none",
                   !.cs[c].tok = s.authInfo.accessToken]

\* getAccessToken after ensureValidToken: throw, or hand out authInfo.accessToken
\* and let the Graph request leave with it.
TokenReturn(s, c, isValid) ==
    IF ~isValid \/ s.authInfo.accessToken = NoToken
    THEN RequestThrows(s, c)
    ELSE [s EXCEPT !.cs[c].pc = "http", !.cs[c].ctx = "none",
                   !.cs[c].tok = s.authInfo.accessToken]

\* authProvider.getAccessToken, called by the Graph client before a request.
GetAccessToken(s, c) ==
    LET s1 == [s EXCEPT !.cs[c].tok = NoToken,
                        !.cs[c].cbStale = s.authInfo.defined /\ PastMargin(s.authInfo, s.now),
                        !.cs[c].cbAt0 = s.authInfo.accessToken,
                        !.cs[c].cbReqs = 0,
                        !.cs[c].cbWrites = 0]
        r == EnsureValidToken(s1, c, "token")
    IN  IF r.out = "sent" THEN r.s ELSE TokenReturn(r.s, c, r.out = "true")

\* getClient / getAuthStatus after `await this.initializeClient()`.
AfterInitialize(s, c) ==
    IF ~s.client
    THEN Done([s EXCEPT !.unauthAt = flow.writes], c,
              IF s.cs[c].op = "status" THEN "unauthenticated" ELSE "notAuthenticated")
    ELSE GetAccessToken([s EXCEPT !.cs[c].probe = 1, !.cs[c].nreq = 0], c)

\* initializeClient after ensureValidToken: create the client or give up.
InitializeReturn(s, c, hasValidToken) ==
    IF hasValidToken
    THEN AfterInitialize([s EXCEPT !.client = TRUE, !.isInitialized = TRUE,
                                   !.unauthAt = -1], c)
    ELSE AfterInitialize(s, c)

\* The test with the authenticated flag left out.
IsUsableWhateverFlag(rec) == rec.accessToken # NoToken

\* initializeClient's test: authInfo?.authenticated && authInfo?.accessToken
IsUsable(rec) == rec.authenticated /\ rec.accessToken # NoToken

\* initializeClient once fs.readFile has completed.
InitializeRead(s, c) ==
    IF s.store.kind # "json"
    THEN AfterInitialize(s, c)
    ELSE LET s1 == [s EXCEPT !.authInfo = JSONParse(s.store.doc)]
         IN  IF IsUsable(s1.authInfo)
             THEN LET r == EnsureValidToken(s1, c, "init")
                  IN  IF r.out = "sent" THEN r.s
                      ELSE InitializeReturn(r.s, c, r.out = "true")
             ELSE AfterInitialize(s1, c)

\* refreshAccessToken has returned to the code that awaited it.
RefreshReturn(s, c, ok) ==
    CASE s.cs[c].ctx = "init" -> InitializeReturn(s, c, ok)
      [] s.cs[c].ctx = "token" -> TokenReturn(s, c, ok)
      [] s.cs[c].ctx = "catch" -> CatchReturn(s, c, ok)

\* refreshAccessToken's new record: the held one with the response's tokens.
NewAuthInfo(held, response, newExpiresAt, t) ==
    [held EXCEPT !.has = @ \cup {"accessToken", "refreshToken", "expiresAt", "timestamp"},
                 !.accessToken = response.access_token,
                 !.refreshToken = response.refresh_token,
                 !.expiresAt = ToISOString(newExpiresAt),
                 !.timestamp = ToISOString(t)]

\* --------------------------------------------------------- provider actions
Cleared(s, c) ==
    [s EXCEPT !.cs[c].req = NoToken, !.cs[c].held = Credentials(Undefined),
              !.cs[c].resp = NoResponse, !.cs[c].respAt = 0,
              !.cs[c].content = NoFile, !.cs[c].wpos = 0]

\* A tool handler starts: getClient() followed by a Graph request ("api"), or
\* getAuthStatus() ("status").  Both begin with initializeClient.
StartCall(c, o) ==
    /\ cs[c].pc = "idle"
    /\ LET s0 == [State EXCEPT !.cs[c] = [IdleCaller EXCEPT !.op = o]]
       IN  IF isInitialized
           THEN Becomes(AfterInitialize(s0, c))
           ELSE Becomes([s0 EXCEPT !.cs[c].pc = "init_read"])

\* fs.readFile of initializeClient completes (or throws: no file, bad JSON).
ReadFileDone(c) ==
    /\ cs[c].pc = "init_read"
    /\ Becomes(InitializeRead(State, c))

\* The token endpoint accepts the refresh token it issued last and rotates it;
\* refreshAccessToken runs from the response to the start of fs.writeFile.
\* (The server's handling of a request and the arrival of its response are one
\* step.)
RefreshGranted(c) ==
    /\ cs[c].pc = "refresh_fetch"
    /\ cs[c].req = issued
    /\ issued < MaxIssued
    /\ \E e \in ExpiresInChoices :
          LET response == [ok |-> TRUE, access_token |-> issued + 1,
                                refresh_token |-> issued + 1, expires_in |-> e]
              newExpiresAt == now + response.expires_in * 1000
              newInfo == NewAuthInfo(authInfo, response, newExpiresAt, now)
          IN  Becomes([State EXCEPT !.issued = issued + 1,
                                    !.authInfo = newInfo,
                                    !.cs[c].pc = "refresh_write",
                                    !.cs[c].resp = response,
                                    !.cs[c].respAt = now,
                                    !.cs[c].content = FileOf(newInfo)])

\* The token endpoint answers with a non-success status: return false.
RefreshRejected(c) ==
    /\ cs[c].pc = "refresh_fetch"
    /\ Becomes(RefreshReturn([Cleared(State, c) EXCEPT !.rejected = TRUE], c, FALSE))

\* fetch throws before the request reaches the server: the catch returns false.
FetchFails(c) ==
    /\ cs[c].pc = "refresh_fetch"
    /\ Becomes(RefreshReturn(Cleared(State, c), c, FALSE))

\* cs[c].wpos: 0 fs.writeFile has not opened the file; 1 it has opened it and
\* written the first part; 2 the file it has open was unlinked since.

\* fs.writeFile opens the file, truncating it, and writes the first part.
WriteFileBegins(c) ==
    /\ cs[c].pc = "refresh_write"
    /\ cs[c].wpos = 0
    /\ Becomes([State EXCEPT !.store = FirstPartOf(cs[c].content),
                              !.cs[c].wpos = 1])

\* What fs.writeFile leaves when it completes from position w.
Written(file, content, w) ==
    CASE w = 0 -> content
      [] w = 1 -> SecondPartOver(file, content)
      [] OTHER -> file

\* fs.writeFile completes; refreshAccessToken returns true.
WriteFileDone(c) ==
    /\ cs[c].pc = "refresh_write"
    /\ LET s1 == [Cleared(State, c) EXCEPT
                    !.store = Written(store, cs[c].content, cs[c].wpos),
                    !.rejected = FALSE,
                    !.cs[c].nwrite = @ + 1,
                    !.cs[c].cbWrites = IF cs[c].ctx = "token" THEN @ + 1 ELSE @]
       IN  Becomes(RefreshReturn(s1, c, TRUE))

\* fs.writeFile throws: the file is as it was, or was truncated on the way;
\* the catch returns false.
WriteFileFails(c) ==
    /\ cs[c].pc = "refresh_write"
    /\ \E f \in (IF cs[c].wpos = 0 THEN {store, Corrupt} ELSE {store}) :
          Becomes(RefreshReturn([Cleared(State, c) EXCEPT !.store = f], c, FALSE))

\* The Graph request made with the handed-out token succeeds.
GraphResponds(c) ==
    /\ cs[c].pc = "http"
    /\ Becomes(Done(State, c, IF cs[c].op = "status" THEN "authenticated" ELSE "apiOk"))

\* The Graph request fails (revoked or expired token, network).
GraphFails(c) ==
    /\ cs[c].pc = "http"
    /\ Becomes(RequestThrows(Forgotten(State, c), c))

\* The tool handler has returned its result to the MCP client; its locals are gone.
CallReturns(c) ==
    /\ cs[c].pc = "done"
    /\ Becomes([State EXCEPT !.cs[c] = IdleCaller])

\* Time passes.
Tick ==
    /\ now < MaxTicks * TickMs
    /\ now' = now + TickMs
    /\ UNCHANGED <<store, authInfo, client, isInitialized, issued, rejected, cs, unauthAt>>
    /\ UNCHANGED device

\* The record the device-code flow wrote before the server process started.
FirstRecord(e) ==
    [defined |-> TRUE, has |-> FieldNames, clientId |-> CLIENT_ID,
     authenticated |-> TRUE,
     timestamp |-> ToISOString(0), expiresAt |-> ToISOString(e * 1000),
     accessToken |-> 1, refreshToken |-> 1, extra |-> NoToken]

\* Date.now() when the process starts.
StartTimes == {0, TickMs}

Init ==
    /\ store \in {NoFile} \cup {FileOf(FirstRecord(e)) : e \in ExpiresInChoices}
    /\ authInfo = Undefined
    /\ client = FALSE
    /\ isInitialized = FALSE
    /\ now \in StartTimes
    /\ issued = IF store = NoFile THEN 0 ELSE 1
    /\ rejected = FALSE
    /\ cs = [c \in Callers |-> IdleCaller]
    /\ unauthAt = -1
    /\ authPc = "idle"
    /\ interval = 0
    /\ attempts = 0
    /\ tokenResponse = NoResponse
    /\ flow = NoFlow

Next ==
    \/ \E c \in Callers : StartCall(c, "api")
    \/ \E c \in Callers : StartCall(c, "status")
    \/ \E c \in Callers : ReadFileDone(c)
    \/ \E c \in Callers : RefreshGranted(c)
    \/ \E c \in Callers : RefreshRejected(c)
    \/ \E c \in Callers : FetchFails(c)
    \/ \E c \in Callers : WriteFileDone(c)
    \/ \E c \in Callers : WriteFileFails(c)
    \/ \E c \in Callers : GraphResponds(c)
    \/ \E c \in Callers : GraphFails(c)
    \/ \E c \in Callers : CallReturns(c)
    \/ Tick

\* The server process with two callers; every fs.writeFile takes effect in one
\* piece (WriteFileBegins is a step of LifeSpec).
Spec == Init /\ [][Next]_vars

\* ------------------------------------------------ device-code flow (CLI)
maxAttempts == 100
SlowDownIncrement == 5
InitialIntervals == {1, 5}
ErrorCodes ==
    {"authorization_pending", "slow_down", "authorization_declined",
     "expired_token", "invalid_grant"}

\* The loop test with <= for <.
LoopContinuesInclusive(n) == n <= maxAttempts

\* pollForToken's loop test: while (attempts < maxAttempts)
LoopContinues(n) == n < maxAttempts

\* slow_down handled without growing the interval.
AfterSlowDownUnchanged(i) == i

\* pollForToken on slow_down: interval += 5
AfterSlowDown(i) == i + SlowDownIncrement

\* expired_token taken for a response to keep polling on.
ErrorClassLenient(code) ==
    CASE code \in {"authorization_pending", "expired_token"} -> "pending"
      [] code = "slow_down" -> "slow_down"
      [] code = "authorization_declined" -> "declined"
      [] OTHER -> "other"

\* pollForToken's if-chain over result.error
ErrorClass(code) ==
    CASE code = "authorization_pending" -> "pending"
      [] code = "slow_down" -> "slow_down"
      [] code = "authorization_declined" -> "declined"
      [] code = "expired_token" -> "expired"
      [] OTHER -> "other"

\* The CLI is run with "authenticate".
AuthenticateStarts ==
    /\ authPc = "idle"
    /\ authPc' = "devicecode"
    /\ UNCHANGED <<store, issued, interval, attempts, tokenResponse, flow>>
    /\ UNCHANGED provider

\* pollForToken's loop head: wait `interval` seconds, or leave with the timeout.
LoopHead(n, i, f) ==
    IF LoopContinues(n)
    THEN /\ authPc' = "wait"
         /\ flow' = [f EXCEPT !.nWaits = @ + 1, !.lastWait = i]
    ELSE /\ authPc' = "failed"
         /\ flow' = [f EXCEPT !.error = "timeout"]

\* getDeviceCode succeeds; pollForToken starts.
DeviceCodeGranted(intervals) ==
    /\ authPc = "devicecode"
    /\ \E i \in intervals :
          /\ interval' = i
          /\ attempts' = 0
          /\ LoopHead(0, i, [flow EXCEPT !.initial = i])
    /\ UNCHANGED <<store, issued, tokenResponse>>
    /\ UNCHANGED provider

\* getDeviceCode throws on a non-success status: authenticate exits.
DeviceCodeRefused ==
    /\ authPc = "devicecode"
    /\ authPc' = "failed"
    /\ flow' = [flow EXCEPT !.error = "deviceCode"]
    /\ UNCHANGED <<store, issued, interval, attempts, tokenResponse>>
    /\ UNCHANGED provider

\* getDeviceCode's fetch rejects (network fault), or the body of a success
\* response does not parse: the exception passes through getDeviceCode as it
\* is, and authenticate's catch exits.
DeviceCodeThrows ==
    /\ authPc = "devicecode"
    /\ authPc' = "failed"
    /\ flow' = [flow EXCEPT !.error = "raw"]
    /\ UNCHANGED <<store, issued, interval, attempts, tokenResponse>>
    /\ UNCHANGED provider

\* The timer fires and the token request leaves.
WaitElapses ==
    /\ authPc = "wait"
    /\ authPc' = "poll"
    /\ flow' = [flow EXCEPT !.nPolls = @ + 1]
    /\ UNCHANGED <<store, issued, interval, attempts, tokenResponse>>
    /\ UNCHANGED provider

\* The token endpoint answers with an error code.
PollError(code) ==
    /\ authPc = "poll"
    /\ LET f == [flow EXCEPT !.lastError = code]
           k == ErrorClass(code)
       IN  CASE k = "pending" ->
                  /\ attempts' = attempts + 1
                  /\ interval' = interval
                  /\ LoopHead(attempts + 1, interval, f)
             [] k = "slow_down" ->
                  /\ attempts' = attempts + 1
                  /\ interval' = AfterSlowDown(interval)
                  /\ LoopHead(attempts + 1, AfterSlowDown(interval),
                              [f EXCEPT !.nSlow = @ + 1])
             [] OTHER ->
                  /\ authPc' = "failed"
                  /\ flow' = [f EXCEPT !.error = k]
                  /\ UNCHANGED <<interval, attempts>>
    /\ UNCHANGED <<store, issued, tokenResponse>>
    /\ UNCHANGED provider

\* pollForToken's fetch rejects (network fault), or response.json() rejects on
\* a body that does not parse: the exception passes through pollForToken as it
\* is, and authenticate's catch exits.
PollThrows ==
    /\ authPc = "poll"
    /\ authPc' = "failed"
    /\ flow' = [flow EXCEPT !.error = "raw"]
    /\ UNCHANGED <<store, issued, interval, attempts, tokenResponse>>
    /\ UNCHANGED provider

\* The token endpoint grants the tokens: pollForToken returns and authenticate
\* runs to its fs.writeFile.
PollGranted ==
    /\ authPc = "poll"
    /\ \E e \in ExpiresInChoices :
          tokenResponse' = [ok |-> TRUE, access_token |-> issued + 1,
                            refresh_token |-> issued + 1, expires_in |-> e]
    /\ issued' = issued + 1
    /\ authPc' = "write"
    /\ flow' = [flow EXCEPT !.lastError = "none", !.grantedAt = now]
    /\ UNCHANGED <<store, interval, attempts>>
    /\ UNCHANGED provider

\* The record with expiresAt taken from expires_in alone.
AuthenticateRecordNoClock(r, t) ==
    [defined |-> TRUE, has |-> FieldNames, clientId |-> CLIENT_ID,
     authenticated |-> TRUE, extra |-> NoToken,
     timestamp |-> ToISOString(t),
     expiresAt |-> ToISOString(r.expires_in * 1000),
     accessToken |-> r.access_token, refreshToken |-> r.refresh_token]

\* authenticate's record (steps 4 and 5).
AuthenticateRecord(r, t) ==
    [defined |-> TRUE, has |-> FieldNames, clientId |-> CLIENT_ID,
     authenticated |-> TRUE, extra |-> NoToken,
     timestamp |-> ToISOString(t),
     expiresAt |-> ToISOString(t + r.expires_in * 1000),
     accessToken |-> r.access_token, refreshToken |-> r.refresh_token]

\* The text authenticate hands to fs.writeFile.
AuthContent == FileOf(AuthenticateRecord(tokenResponse, flow.grantedAt))

\* Where authenticate's fs.writeFile stands (as cs[c].wpos).
AuthWpos ==
    CASE authPc = "write" -> 0
      [] authPc = "write_rest" -> 1
      [] OTHER -> 2

\* fs.writeFile of authenticate opens the file, truncating it, and writes the
\* first part.
AuthWriteBegins ==
    /\ authPc = "write"
    /\ store' = FirstPartOf(AuthContent)
    /\ authPc' = "write_rest"
    /\ UNCHANGED <<issued, interval, attempts, tokenResponse, flow>>
    /\ UNCHANGED provider

\* fs.writeFile of authenticate completes.
AuthWriteDone ==
    /\ authPc \in {"write", "write_rest", "write_lost"}
    /\ store' = Written(store, AuthContent, AuthWpos)
    /\ authPc' = "done"
    /\ flow' = [flow EXCEPT !.writes = @ + 1]
    /\ UNCHANGED <<issued, interval, attempts, tokenResponse>>
    /\ UNCHANGED provider

\* fs.writeFile of authenticate throws: the catch exits with status 1.
AuthWriteFails ==
    /\ authPc \in {"write", "write_rest", "write_lost"}
    /\ store' \in (IF authPc = "write" THEN {store, Corrupt} ELSE {store})
    /\ authPc' = "failed"
    /\ flow' = [flow EXCEPT !.error = "write"]
    /\ UNCHANGED <<issued, interval, attempts, tokenResponse>>
    /\ UNCHANGED provider

\* The CLI is run with "logout": fs.unlink removes the file.  A write that has
\* the file open goes on into the unlinked file.
Logout ==
    /\ store' = NoFile
    /\ cs' = [c \in Callers |->
                IF cs[c].wpos = 1 THEN [cs[c] EXCEPT !.wpos = 2] ELSE cs[c]]
    /\ authPc' = IF authPc = "write_rest" THEN "write_lost" ELSE authPc
    /\ UNCHANGED <<authInfo, client, isInitialized, now, issued, rejected, unauthAt,
                   interval, attempts, tokenResponse, flow>>

PollNext ==
    \/ AuthenticateStarts
    \/ DeviceCodeGranted(InitialIntervals)
    \/ DeviceCodeRefused
    \/ WaitElapses
    \/ \E code \in ErrorCodes : PollError(code)
    \/ PollGranted
    \/ AuthWriteDone
    \/ AuthWriteFails
    \/ DeviceCodeThrows
    \/ PollThrows

\* One run of `authenticate`, the server process not running.
PollSpec == Init /\ [][PollNext]_vars

\* Timers fire and requests are answered.
FairPollSpec == PollSpec /\ WF_vars(PollNext)

\* ------------------------------- the server process and the CLI, one store
\* The record without member k.
Without(r, k) == [r EXCEPT !.has = @ \ {k}, ![k] = Absent(k)]

\* What the store may hold when the server process starts: nothing, a record
\* of authenticate, a record with authenticated = false, a record that lacks
\* one member, a record with a member the code does not know.
StartRecords ==
    {FirstRecord(e) : e \in ExpiresInChoices}
        \cup {[FirstRecord(600) EXCEPT !.authenticated = FALSE]}
        \cup {Without(FirstRecord(600), k) : k \in FieldNames}
        \cup {Without(FirstRecord(300), "refreshToken")}
        \cup {[FirstRecord(300) EXCEPT !.has = @ \cup {"extra"}, !.extra = 1]}

LifeInit ==
    /\ store \in {NoFile} \cup {FileOf(r) : r \in StartRecords}
    /\ authInfo = Undefined
    /\ client = FALSE
    /\ isInitialized = FALSE
    /\ now \in StartTimes
    /\ issued = IF store = NoFile THEN 0 ELSE 1
    /\ rejected = FALSE
    /\ cs = [c \in Callers |-> IdleCaller]
    /\ unauthAt = -1
    /\ authPc = "idle"
    /\ interval = 0
    /\ attempts = 0
    /\ tokenResponse = NoResponse
    /\ flow = NoFlow

\* The tool calls are served one at a time.
LifeCallers == {"c1"}

\* The interval the device-code endpoint gives (seconds).
LifeIntervals == {5}

\* The user answers before the second poll, or the flow ends in an error.
TerminalCodes == {"authorization_declined", "expired_token", "invalid_grant"}

LifeNext ==
    \/ \E c \in LifeCallers : StartCall(c, "api")
    \/ \E c \in LifeCallers : StartCall(c, "status")
    \/ \E c \in LifeCallers : ReadFileDone(c)
    \/ \E c \in LifeCallers : RefreshGranted(c)
    \/ \E c \in LifeCallers : RefreshRejected(c)
    \/ \E c \in LifeCallers : FetchFails(c)
    \/ \E c \in LifeCallers : WriteFileBegins(c)
    \/ \E c \in LifeCallers : WriteFileDone(c)
    \/ \E c \in LifeCallers : WriteFileFails(c)
    \/ \E c \in LifeCallers : GraphResponds(c)
    \/ \E c \in LifeCallers : GraphFails(c)
    \/ \E c \in LifeCallers : CallReturns(c)
    \/ Tick
    \/ Logout
    \/ AuthenticateStarts
    \/ DeviceCodeGranted(LifeIntervals)
    \/ DeviceCodeRefused
    \/ DeviceCodeThrows
    \/ WaitElapses
    \/ \E code \in TerminalCodes : PollError(code)
    \/ PollThrows
    \/ PollGranted
    \/ AuthWriteBegins
    \/ AuthWriteDone
    \/ AuthWriteFails

\* The server process serving calls while the CLI is run beside it
\* (authenticate once, logout at any time).
LifeSpec == LifeInit /\ [][LifeNext]_vars

\* ------------------------------------------------------ history, in words
\* cs[c].nreq    refresh requests sent by caller c's current call, counted
\*               from the return of its initializeClient
\* cs[c].nwrite  refreshes of the current call that returned true
\* cs[c].held    the credentials in memory when c's refreshAccessToken began
\* cs[c].tok     the token the latest getAccessToken call handed out (pc = "http")
\* cs[c].cbStale the held record was past the margin when that call began
\* cs[c].cbAt0   the access token held when that call began
\* cs[c].cbReqs, cs[c].cbWrites  refresh requests / store writes of that call
\* unauthAt      flow.writes when initializeClient last returned without a client

InRefresh(c) == cs[c].pc \in {"refresh_fetch", "refresh_write"}

StoredRecord == JSONParse(store.doc)

\* C1: callers (token callbacks, getAuthStatus) that find the held record stale
\* at the same time share one refresh: never do two of them have a refresh
\* request outstanding that carries the same refresh credential.
C1_SingleFlight ==
    \A c, d \in Callers :
        (/\ c # d
         /\ cs[c].pc = "refresh_fetch" /\ cs[c].ctx \in {"token", "catch"}
         /\ cs[d].pc = "refresh_fetch" /\ cs[d].ctx \in {"token", "catch"})
            => cs[c].req # cs[d].req

\* C2: getAccessToken hands out a token only if the held record was not past
\* the 5-minute margin when the call began, or the call sent a refresh first.
C2_NoStaleHandout ==
    \A c \in Callers :
        cs[c].tok # NoToken => (~cs[c].cbStale \/ cs[c].cbReqs >= 1)

C2_Witness ==
    \E c \in Callers :
        cs[c].pc = "http" /\ cs[c].tok # NoToken /\ cs[c].cbStale /\ cs[c].cbReqs = 1

\* C3: a getAccessToken call that finds the held record later than now + 5
\* minutes returns the access token held at that moment, sends no refresh
\* request and writes nothing to the store.
C3_FreshIsCached ==
    \A c \in Callers :
        (cs[c].tok # NoToken /\ ~cs[c].cbStale)
            => (cs[c].tok = cs[c].cbAt0 /\ cs[c].cbReqs = 0 /\ cs[c].cbWrites = 0)

C3_Witness ==
    \E c \in Callers :
        cs[c].pc = "http" /\ cs[c].tok # NoToken /\ ~cs[c].cbStale /\ cs[c].tok = cs[c].cbAt0

\* C4: once a refresh has been rejected and no record has been written to the
\* store since, a call that starts sends no request to the token endpoint.
C4_NoRetryAfterRejection ==
    [][\A c \in Callers :
          (rejected /\ cs[c].pc = "idle") => cs'[c].pc # "refresh_fetch"]_vars

\* C5: whenever no refresh is in progress, the refresh credential of the
\* stored record is the one the authorization server issued last.
C5_StoreHoldsLatest ==
    ((\A c \in Callers : ~InRefresh(c)) /\ store.kind = "json")
        => StoredRecord.refreshToken = issued

\* C6: when refreshAccessToken returns true, the refresh credential in memory
\* and in the stored record is the one of its token response, and expiresAt
\* is the time of the response plus expires_in.
C6_SuccessHoldsResponse ==
    [][\A c \in Callers :
          (cs[c].pc = "refresh_write" /\ cs'[c].nwrite = cs[c].nwrite + 1)
              => /\ authInfo'.refreshToken = cs[c].resp.refresh_token
                 /\ store'.kind = "json"
                 /\ JSONParse(store'.doc).refreshToken = cs[c].resp.refresh_token
                 /\ authInfo'.expiresAt
                       = ToISOString(cs[c].respAt + cs[c].resp.expires_in * 1000)
                 /\ JSONParse(store'.doc).expiresAt
                       = ToISOString(cs[c].respAt + cs[c].resp.expires_in * 1000)]_vars

\* C10: after initializeClient, one getAuthStatus call sends at most one
\* refresh request and probes at most twice.
C10_OneRefreshOneRetry ==
    \A c \in Callers :
        cs[c].op = "status" => (cs[c].nreq <= 1 /\ cs[c].probe <= 2)

\* C7: pollForToken sends at most 100 token requests; with 100 pending or
\* slow_down answers it fails with the timeout error; and every run of the
\* flow comes to an end.
C7_Bounded ==
    /\ flow.nPolls <= 100
    /\ attempts >= 100 => (authPc = "failed" /\ flow.error = "timeout")
    /\ flow.error = "timeout" => (flow.nPolls = 100 /\ attempts = 100)

C7_PollTerminates == []C7_Bounded /\ <>(authPc \in {"done", "failed"})

C7_Witness == authPc = "failed" /\ flow.error = "timeout" /\ flow.nPolls = 100

\* C8: a wait precedes each token request; the wait before an attempt is the
\* initial interval plus 5 s per slow_down received so far (authorization_pending
\* adds nothing); on success the record is written exactly once.
C8_WaitsFollowSlowDown ==
    /\ interval = flow.initial + 5 * flow.nSlow
    /\ flow.nWaits = flow.nPolls + (IF authPc = "wait" THEN 1 ELSE 0)
    /\ authPc \in {"wait", "poll", "write", "done"}
          => flow.lastWait = flow.initial + 5 * flow.nSlow
    /\ flow.writes <= 1
    /\ flow.writes = 1 <=> authPc = "done"
    /\ authPc = "done" => store = FileOf(AuthenticateRecord(tokenResponse, flow.grantedAt))

C8_Witness ==
    /\ authPc = "done"
    /\ flow.nSlow = 2
    /\ flow.nPolls = 3
    /\ flow.lastWait = flow.initial + 10
    /\ flow.writes = 1

\* C9: a token response whose error is neither authorization_pending nor
\* slow_down ends pollForToken at once: no wait and no request follows it.
C9_TerminalErrorsStop ==
    flow.lastError \notin {"none", "authorization_pending", "slow_down"}
        => /\ authPc = "failed"
           /\ flow.error \in {"declined", "expired", "other"}
           /\ flow.nWaits = flow.nPolls

C9_Witness ==
    /\ flow.lastError \in {"authorization_declined", "expired_token", "invalid_grant"}
    /\ flow.nPolls >= 2
    /\ authPc = "failed"

\* C11: on a provider without a client, a call whose initializeClient finds no
\* record in the store (no file, text that does not parse) or a record with
\* authenticated = false ends at once: getAuthStatus with isAuthenticated false,
\* getClient with the not-authenticated error; no request is sent to the token
\* endpoint, no probe is made, and the store is as before.
C11_NoRecordNoNetwork ==
    [][\A c \in Callers :
          (/\ cs[c].pc = "init_read"
           /\ cs'[c] # cs[c]
           /\ ~client
           /\ (store.kind # "json" \/ ~StoredRecord.authenticated))
              => /\ cs'[c].pc = "done"
                 /\ cs'[c].result = (IF cs[c].op = "status" THEN "unauthenticated"
                                                            ELSE "notAuthenticated")
                 /\ ~client'
                 /\ issued' = issued
                 /\ store' = store]_vars

C11_Witness ==
    \E c \in Callers :
        /\ cs[c].pc = "done"
        /\ cs[c].result = "notAuthenticated"
        /\ store.kind = "json"
        /\ "authenticated" \in StoredRecord.has
        /\ ~StoredRecord.authenticated
        /\ StoredRecord.accessToken # NoToken
        /\ ~client

\* A call of c reaches getAccessToken in this step with a record whose
\* expiresAt is 10 minutes after now: loaded from the store by its
\* initializeClient, or held by the initialized provider.
C12_TenMinutesAhead(c) ==
    \/ /\ cs[c].pc = "init_read"
       /\ store.kind = "json"
       /\ StoredRecord.authenticated
       /\ StoredRecord.accessToken # NoToken
       /\ StoredRecord.expiresAt # <<>>
       /\ DateParse(StoredRecord.expiresAt) = now + 600000
    \/ /\ cs[c].pc = "idle"
       /\ isInitialized
       /\ authInfo.accessToken # NoToken
       /\ authInfo.expiresAt # <<>>
       /\ DateParse(authInfo.expiresAt) = now + 600000

\* The record c's step works on: the stored one at initializeClient, else the held one.
HeldBy(c) == IF cs[c].pc = "init_read" THEN StoredRecord ELSE authInfo

\* C12 (as the code has it): with a record whose expiresAt is 10 minutes in the
\* future, getAccessToken sends no refresh request; it hands out the access
\* credential of that record, and the store is left as it was.
C12_TenMinutesAheadIsCached ==
    [][\A c \in Callers :
          (cs'[c] # cs[c] /\ C12_TenMinutesAhead(c))
              => /\ cs'[c].pc = "http"
                 /\ cs'[c].tok = HeldBy(c).accessToken
                 /\ cs'[c].cbReqs = 0
                 /\ issued' = issued
                 /\ store' = store]_vars

C12_Witness ==
    \E c \in Callers :
        /\ cs[c].pc = "http"
        /\ cs[c].tok = 1
        /\ cs[c].cbReqs = 0
        /\ issued = 1
        /\ now = 0
        /\ store = FileOf(FirstRecord(600))
        /\ DateParse(authInfo.expiresAt) = now + 600000

\* C12 (as stated): with a record whose expiresAt is 10 minutes in the future,
\* the call sends a refresh request.
C12_TenMinutesAheadRefreshes ==
    [][\A c \in Callers :
          (cs'[c] # cs[c] /\ C12_TenMinutesAhead(c))
              => cs'[c].pc = "refresh_fetch"]_vars

\* C13: while the store holds no record (after logout, until authenticate has
\* written one), a call that starts gets no credential and sends nothing to the
\* token endpoint, and nothing but authenticate's write puts a record into the
\* store.
C13_LogoutUnauthenticates ==
    [][store.kind = "none"
          => /\ \A c \in Callers :
                  cs[c].pc = "idle" => cs'[c].pc \notin {"http", "refresh_fetch"}
             /\ store'.kind = "json"
                  => authPc \in {"write", "write_rest", "write_lost"}]_vars

\* C14: a call whose initializeClient loads a record that lacks one of the six
\* members ends without a client and without a credential handed out.
C14_MissingFieldIsNotFound ==
    [][\A c \in Callers :
          (/\ cs[c].pc = "init_read"
           /\ cs'[c] # cs[c]
           /\ ~client
           /\ store.kind = "json"
           /\ ~(FieldNames \subseteq StoredRecord.has))
              => (~client' /\ cs'[c].pc = "done")]_vars

\* C15: when authenticate ends in success the store holds a record with
\* authenticated = true, the tokens of the token response and expiresAt = now +
\* expires_in; the store changes only by the write that follows a token
\* response, and a run that failed before it has written nothing.
C15_Success ==
    authPc = "done"
        => /\ tokenResponse.ok
           /\ store.kind = "json"
           /\ StoredRecord.authenticated
           /\ StoredRecord.accessToken = tokenResponse.access_token
           /\ StoredRecord.refreshToken = tokenResponse.refresh_token
           /\ DateParse(StoredRecord.expiresAt) = now + tokenResponse.expires_in * 1000

C15_Failure ==
    (authPc = "failed" /\ flow.error # "write") => (flow.writes = 0 /\ ~tokenResponse.ok)

C15_WritesOnSuccessOnly ==
    /\ [](C15_Success /\ C15_Failure)
    /\ [][store' # store => (authPc = "write" /\ tokenResponse.ok)]_vars

C15_Witness ==
    /\ authPc = "done"
    /\ now = TickMs
    /\ tokenResponse.expires_in = 300
    /\ store.kind = "json"
    /\ DateParse(StoredRecord.expiresAt) = TickMs + 300000
    /\ flow.writes = 1

\* The two records agree in the six fields (a field both lack included).
SameRecord(a, b) ==
    LET x == a
        y == b
    IN  \A k \in FieldNames : (k \in x.has <=> k \in y.has) /\ x[k] = y[k]

C17_ReadyOnlyAfterNewRecord ==
    [][(~client /\ client') => (unauthAt = -1 \/ flow.writes > unauthAt)]_vars

\* C18: whenever a step of a save leaves text in the store that parses, that
\* text is the whole text of a save in progress.
C18_NoMixedRecord ==
    [][(store' # store /\ store'.kind = "json")
          => \/ \E c \in Callers : cs[c].pc = "refresh_write" /\ store' = cs[c].content
             \/ authPc \in {"write", "write_rest", "write_lost"} /\ store' = AuthContent]_vars

\* refreshAccessToken is called in this step by c while the held record has no
\* refresh credential: from getAuthStatus's catch, from the token callback of
\* the initialized provider, or from initializeClient.
C19_CalledWithout(c) ==
    \/ /\ cs[c].pc = "http"
       /\ cs[c].op = "status"
       /\ cs[c].probe = 1
       /\ cs'[c].result # "authenticated"
       /\ authInfo.defined
       /\ authInfo.refreshToken = NoToken
    \/ /\ cs[c].pc = "idle"
       /\ isInitialized
       /\ authInfo.refreshToken = NoToken
       /\ PastMargin(authInfo, now)
    \/ /\ cs[c].pc = "init_read"
       /\ store.kind = "json"
       /\ StoredRecord.authenticated
       /\ StoredRecord.accessToken # NoToken
       /\ StoredRecord.refreshToken = NoToken
       /\ PastMargin(StoredRecord, now)

\* C19: refreshAccessToken called while the held record has no refresh
\* credential sends no request (the call ends in failure in the same step) and
\* leaves the record in memory and the store as they were.
C19_NoCredentialNoRequest ==
    [][\A c \in Callers :
          (cs'[c] # cs[c] /\ C19_CalledWithout(c))
              => /\ cs'[c].pc = "done"
                 /\ cs'[c].result \in {"unauthenticated", "notAuthenticated", "apiError"}
                 /\ authInfo' = HeldBy(c)
                 /\ store' = store
                 /\ issued' = issued]_vars

C19_Witness ==
    \E c \in Callers :
        /\ cs[c].pc = "done"
        /\ cs[c].result = "apiError"
        /\ client
        /\ authInfo.defined
        /\ authInfo.refreshToken = NoToken
        /\ PastMargin(authInfo, now)
        /\ store = FileOf(authInfo)

\* C20: authenticate's flow fails only with its own errors: the server error of
\* getDeviceCode, a terminal error code, the timeout (or the failed write of
\* authenticate itself).
C20_OnlyFlowErrors ==
    authPc = "failed"
        => flow.error \in {"deviceCode", "declined", "expired", "other", "timeout", "write"}

\* refreshAccessToken of c returns false in this step: after a non-success
\* status or a fault of fetch, or after fs.writeFile threw.
C21_ReturnsFailure(c) ==
    \/ /\ cs[c].pc = "refresh_fetch"
       /\ cs'[c] # cs[c]
       /\ cs'[c].pc # "refresh_write"
    \/ /\ cs[c].pc = "refresh_write"
       /\ cs'[c].pc # "refresh_write"
       /\ cs'[c].nwrite # cs[c].nwrite + 1

\* C21: when refreshAccessToken returns false, the access credential and the
\* refresh credential in memory are those held when the call began, and they
\* and expiresAt are those of the stored record.
C21_FailureLeavesMemory ==
    [][\A c \in Callers :
          C21_ReturnsFailure(c)
              => /\ Credentials(authInfo') = cs[c].held
                 /\ store'.kind = "json"
                 /\ Credentials(JSONParse(store'.doc)) = Credentials(authInfo')
                 /\ JSONParse(store'.doc).expiresAt = authInfo'.expiresAt]_vars

\* GraphService.isAuthenticated()
IsAuthenticated == client /\ isInitialized

\* C22: isInitialized implies that the client is defined; once isInitialized
\* is true, it and the client stay as they are whatever happens afterwards
\* (failed refreshes included), isAuthenticated() stays true, and no getClient
\* call ends with the not-authenticated error.
C22_NeverReset ==
    /\ [](isInitialized => client)
    /\ [][isInitialized => (isInitialized' /\ client' /\ IsAuthenticated')]_vars
    /\ [][\A c \in Callers :
             (isInitialized /\ cs[c].pc # "done" /\ cs'[c].pc = "done")
                 => cs'[c].result # "notAuthenticated"]_vars

\* A refresh of the initialized provider was granted and its save failed,
\* truncating the file; the call ended in an error and the client is there.
C22_Witness ==
    /\ IsAuthenticated
    /\ store = Corrupt
    /\ authInfo.refreshToken = issued
    /\ \E c \in Callers : cs[c].pc = "done" /\ cs[c].result = "apiError"

\* Caller c is inside initializeClient: it passed the isInitialized check and
\* waits for fs.readFile, or for the refresh that ensureValidToken started.
InInitialize(c) ==
    \/ cs[c].pc = "init_read"
    \/ InRefresh(c) /\ cs[c].ctx = "init"

\* C23: while both callers are inside initializeClient, no step replaces the
\* refresh credential in memory by one issued earlier, and every refresh
\* request that leaves carries the credential the server issued last.
C23_NoOlderRecord ==
    [][(\A c \in Callers : InInitialize(c))
          => /\ authInfo.defined => authInfo'.refreshToken >= authInfo.refreshToken
             /\ \A c \in Callers :
                   (cs[c].pc # "refresh_fetch" /\ cs'[c].pc = "refresh_fetch")
                       => cs'[c].req = issued]_vars

=============================================================================
